---- MODULE Spec2Model ----
(***************************************************************************)
(* A model of the byte-pair-encoding tokenizer of src/bpe.cpp: the class   *)
(* BPETokenizer (constructor, reset, register_special_token, train,        *)
(* encode, decode, vocab_size) and the free functions string_to_byte,      *)
(* most_frequent_pair and merge_pair.                                      *)
(*                                                                         *)
(* A std::string is a sequence of char values.  char is signed on the      *)
(* build modelled here, so a char is an integer in -128..127 and the       *)
(* casts of lines 24-25 and 78 are the conversions ByteOf and CharOf.      *)
(* A token ID is an int.                                                   *)
(*                                                                         *)
(* Every public method runs to completion before the next one starts:      *)
(* pc = "idle" between calls.  The loop of train is taken one iteration    *)
(* per step (pc = "train"), and while it runs no other method is enabled.  *)
(* A call that executes undefined behaviour ends the process               *)
(* (pc = "crashed"); the way it ends is a choice over Faults.  A call of   *)
(* encode whose pattern is no regular expression throws std::regex_error  *)
(* and leaves the tokenizer as it was (pc = "idle").                       *)
(***************************************************************************)
EXTENDS Integers, Sequences, FiniteSets, TLC

VARIABLES
    max_vocab_size,  \* BPETokenizer::max_vocab_size
    pairs,           \* BPETokenizer::pairs: <<first, second>> -> id
    added_tokens,    \* BPETokenizer::id_to_token, less the entries reset() gives it
    next_id,         \* BPETokenizer::next_id
    special_to_id,   \* BPETokenizer::special_to_id: string -> id
    id_to_special,   \* BPETokenizer::id_to_special: id -> string
    pc,              \* "idle", "train" (inside train's loop) or "crashed"
    indices,         \* train's local vector `indices`
    stop_early,      \* train's parameter stop_early
    ret              \* the call in progress or last finished, and what it returned

vars == <<max_vocab_size, pairs, added_tokens, next_id, special_to_id,
          id_to_special, pc, indices, stop_early, ret>>

----------------------------------------------------------------------------
(* Bounds of the model and the inputs the methods are called with. *)

\* Longest text handed to train and encode.
MaxLen == 3

\* max_vocab_size ranges over 257 .. 256 + MaxMerges.
MaxMerges == 2

\* Longest ID sequence handed to decode directly.
MaxDecodeLen == 2

\* The chars texts are made of: 'a' and the char of byte 0xC3 (195), which is
\* -61 as a signed char.
Alphabet == {97, -61}

\* The literals register_special_token is called with: "a" and "a\xC3", the
\* first a prefix of the second.
SpecialTokens == {<<97>>, <<97, -61>>}

\* The IDs decode is called with: a byte, and the first ID above the bytes.
ProbeIds == {97, 256}

\* The ways a call that executes undefined behaviour ends the process: the
\* out-of-bounds read of an empty vector faults, or the library's bounds
\* assertion aborts.
Faults == {"segv", "abort"}

RECURSIVE SeqsUpTo(_, _)
SeqsUpTo(S, n) ==
    IF n = 0 THEN {<<>>}
    ELSE LET shorter == SeqsUpTo(S, n - 1)
         IN  shorter \cup {Append(s, x) : s \in shorter, x \in S}

Texts == SeqsUpTo(Alphabet, MaxLen)
IdSeqs == SeqsUpTo(ProbeIds, MaxDecodeLen)
MaxVocabSizes == 257 .. (256 + MaxMerges)

----------------------------------------------------------------------------
(* Helpers on maps. *)

EmptyMap == [x \in {} |-> 0]

Put(f, k, v) == [x \in (DOMAIN f) \cup {k} |-> IF x = k THEN v ELSE f[x]]

----------------------------------------------------------------------------
(* Conversions between char and byte value. *)

\* static_cast<int>(unsigned char c) of a char.
ByteOf(c) == c % 256

\* static_cast<char>(i) for i in 0..255.
CharOf(i) == IF i >= 128 THEN i - 256 ELSE i

string_to_byte(input) == [k \in 1..Len(input) |-> ByteOf(input[k])]

----------------------------------------------------------------------------
(* The table id_to_token. *)

\* The entries reset() gives id_to_token, lines 77-79: each byte value maps to
\* the string of that one char.
ByteTokens == [i \in 0..255 |-> <<CharOf(i)>>]

\* id_to_token: the entries of reset() and, over them, the entries written
\* since (the state keeps only those, which keeps a state short to print).
id_to_token ==
    [i \in (0..255) \cup (DOMAIN added_tokens) |->
        IF i \in DOMAIN added_tokens THEN added_tokens[i] ELSE ByteTokens[i]]

\* The entries of a table t that are not those of reset().
Added(t) ==
    [i \in {j \in DOMAIN t : j \notin 0..255 \/ t[j] # ByteTokens[j]} |-> t[i]]

----------------------------------------------------------------------------
(* most_frequent_pair and merge_pair. *)

\* SIZE_MAX: what size() - 1 wraps to for an empty vector.  size_t is 64 bits
\* wide; the model's integers are 32 bits wide, and the largest of them
\* stands for SIZE_MAX, which only needs to exceed every vector length.
SizeMax == 2147483647

\* indices.size() - 1 in size_t arithmetic.
SizeMinusOne(n) == IF n = 0 THEN SizeMax ELSE n - 1

\* The loop `for (i = 0; i < size() - 1; ++i)` reads elements i and i + 1: it
\* reads outside a vector of n elements when the wrapped bound lets i + 1
\* reach n.
LoopOutOfBounds(n) == SizeMinusOne(n) > 0 /\ SizeMinusOne(n) >= n

PairsIn(ind) == {<<ind[k], ind[k + 1]>> : k \in 1..(Len(ind) - 1)}

PairCount(ind, p) ==
    Cardinality({k \in 1..(Len(ind) - 1) : <<ind[k], ind[k + 1]>> = p})

\* The results most_frequent_pair can return for a vector it reads within
\* bounds, each <<pair, count>>.  std::max_element returns the first element
\* of highest count in the iteration order of the unordered_map, which is
\* unspecified: any pair of highest count.
most_frequent_pair(ind) ==
    IF PairsIn(ind) = {}
    THEN {<< <<-1, -1>>, 0 >>}
    ELSE {<<p, PairCount(ind, p)>> :
            p \in {q \in PairsIn(ind) :
                     \A r \in PairsIn(ind) : PairCount(ind, r) <= PairCount(ind, q)}}

RECURSIVE merge_from(_, _, _, _)
merge_from(ind, pair, new_index, i) ==
    IF i < Len(ind)
    THEN IF i < Len(ind) - 1 /\ <<ind[i + 1], ind[i + 2]>> = pair
         THEN <<new_index>> \o merge_from(ind, pair, new_index, i + 2)
         ELSE <<ind[i + 1]>> \o merge_from(ind, pair, new_index, i + 1)
    ELSE <<>>

merge_pair(ind, pair, new_index) == merge_from(ind, pair, new_index, 0)

----------------------------------------------------------------------------
(* _encode_non_special. *)

\* One pass of the for loop of lines 181-188 from position i on.  The result
\* is [ind, changed, fault]: fault when the pass reads outside the vector.
RECURSIVE encode_pass(_, _, _, _)
encode_pass(prs, ind, i, changed) ==
    IF i < SizeMinusOne(Len(ind))
    THEN IF i + 2 > Len(ind)
         THEN [ind |-> ind, changed |-> changed, fault |-> TRUE]
         ELSE LET pair == <<ind[i + 1], ind[i + 2]>>
              IN  IF pair \in DOMAIN prs
                  THEN encode_pass(prs,
                                   [k \in 1..(Len(ind) - 1) |->
                                      IF k < i + 1 THEN ind[k]
                                      ELSE IF k = i + 1 THEN prs[pair]
                                      ELSE ind[k + 1]],
                                   i + 1, TRUE)
                  ELSE encode_pass(prs, ind, i + 1, changed)
    ELSE [ind |-> ind, changed |-> changed, fault |-> FALSE]

\* The do-while loop of lines 179-189.
RECURSIVE encode_passes(_, _)
encode_passes(prs, ind) ==
    LET r == encode_pass(prs, ind, 0, FALSE)
    IN  IF r.fault THEN [status |-> "fault", ids |-> <<>>]
        ELSE IF r.changed THEN encode_passes(prs, r.ind)
        ELSE [status |-> "ok", ids |-> r.ind]

encode_non_special(prs, input) == encode_passes(prs, string_to_byte(input))

----------------------------------------------------------------------------
(* encode: the pattern of the special tokens and the split of the input. *)

\* The characters the regex of line 132 matches: . ^ $ * + ? ( ) [ ] { } |
MetaChars == {46, 94, 36, 42, 43, 63, 40, 41, 91, 93, 123, 125, 124}

\* regex_replace(token, regex("[.^$*+?()[\\]{}|]"), "\\$&"): a backslash
\* before each of them.
RECURSIVE EscapeToken(_)
EscapeToken(token) ==
    IF token = <<>> THEN <<>>
    ELSE (IF Head(token) \in MetaChars THEN <<92, Head(token)>> ELSE <<Head(token)>>)
         \o EscapeToken(Tail(token))

\* The sequences the range-for of line 130 can visit the tokens of the
\* unordered_map special_to_id in: every order (the order is unspecified).
IterationOrders(S) ==
    {o \in [1..Cardinality(S) -> S] : \A x \in S : \E k \in DOMAIN o : o[k] = x}

\* The pattern of lines 129-134: "(", then each token escaped, with "|"
\* before it when the pattern is longer than the "(" by then, then ")".
RECURSIVE PatternFrom(_, _, _)
PatternFrom(order, k, pattern) ==
    IF k > Len(order) THEN pattern \o <<41>>
    ELSE PatternFrom(order, k + 1,
                     (IF Len(pattern) > 1 THEN pattern \o <<124>> ELSE pattern)
                     \o EscapeToken(order[k]))

PatternOf(order) == PatternFrom(order, 1, <<40>>)

----------------------------------------------------------------------------
(* std::regex special_pattern(pattern), line 135: the pattern is read as an
   ECMAScript regular expression.  Line 132 puts a backslash before the
   characters . ^ $ * + ? ( ) [ ] { } | of a token and before no other, so a
   backslash of a token is an escape of the regular expression: with the
   character after it in the pattern it names a class (\d), an assertion
   (\b), a back-reference (\1), a control character (\n), or, before the
   backslash line 132 put in, a plain backslash that leaves the
   character after that one with its meaning in the expression. *)

Digits == 48 .. 57
XDigits == Digits \cup (65 .. 70) \cup (97 .. 102)
Alnum == Digits \cup (65 .. 90) \cup (97 .. 122)

\* The characters an ECMAScript escape names a control character by:
\* \0 \b \f \n \r \t \v (\b inside a bracket expression only).
EscapeTbl ==
    [c \in {48, 98, 102, 110, 114, 116, 118} |->
        CASE c = 48 -> 0 [] c = 98 -> 8 [] c = 102 -> 12 [] c = 110 -> 10
          [] c = 114 -> 13 [] c = 116 -> 9 [] c = 118 -> 11]

\* The characters with a meaning of their own outside a bracket expression.
SpecChars == {94, 36, 92, 46, 42, 43, 63, 40, 41, 91, 93, 123, 125, 124, 0}

HexVal(c) == IF c \in Digits THEN c - 48 ELSE IF c >= 97 THEN c - 87 ELSE c - 55

\* The number a run of hexadecimal digits p[i..j] stands for, modulo 256
\* (it becomes one char).
RECURSIVE HexNum(_, _, _, _)
HexNum(p, i, j, v) ==
    IF i > j THEN v ELSE HexNum(p, i + 1, j, (v * 16 + HexVal(p[i])) % 256)

\* The index after the run of decimal digits that starts at p[i].
RECURSIVE DigitsEnd(_, _)
DigitsEnd(p, i) == IF i <= Len(p) /\ p[i] \in Digits THEN DigitsEnd(p, i + 1) ELSE i

\* The number the decimal digits p[i..j] stand for, converted to int and then
\* to size_t as the compiler of the expression does: kept modulo 2^32 in two
\* 16-bit halves <<hi, lo>>; a number of 2^16 or more, or a negative int, is
\* NoIndex, more than any group an expression of line 135 has.
NoIndex == 65536
RECURSIVE DecHalves(_, _, _, _)
DecHalves(p, i, j, v) ==
    IF i > j THEN v
    ELSE LET t == v[2] * 10 + (p[i] - 48)
         IN  DecHalves(p, i + 1, j, <<(v[1] * 10 + t \div 65536) % 65536, t % 65536>>)

DecNum(p, i, j) ==
    LET v == DecHalves(p, i, j, <<0, 0>>) IN IF v[1] = 0 THEN v[2] ELSE NoIndex

Tok(t, c) == [t |-> t, c |-> c]
Scanned(tok, i, st) == [err |-> FALSE, tok |-> tok, i |-> i, st |-> st]
ScanError == [err |-> TRUE, tok |-> Tok("eof", 0), i |-> 0, st |-> "normal"]

\* The escape whose backslash is p[i - 1], in scanner state st.
EatEscape(p, i, st) ==
    IF i > Len(p) THEN ScanError
    ELSE LET c == p[i]
         IN  IF c \in DOMAIN EscapeTbl /\ (c # 98 \/ st = "bracket")
             THEN Scanned(Tok("ord_char", EscapeTbl[c]), i + 1, st)
             ELSE IF c = 98 THEN Scanned(Tok("word_bound", 0), i + 1, st)
             ELSE IF c = 66 THEN Scanned(Tok("word_bound", 1), i + 1, st)
             ELSE IF c \in {100, 68, 115, 83, 119, 87}
             THEN Scanned(Tok("quoted_class", c), i + 1, st)
             ELSE IF c = 99
             THEN IF i + 1 > Len(p) THEN ScanError
                  ELSE Scanned(Tok("ord_char", p[i + 1]), i + 2, st)
             ELSE IF c \in {120, 117}
             THEN LET n == IF c = 120 THEN 2 ELSE 4
                  IN  IF i + n <= Len(p) /\ \A k \in 1 .. n : p[i + k] \in XDigits
                      THEN Scanned(Tok("ord_char", CharOf(HexNum(p, i + 1, i + n, 0))),
                                   i + n + 1, st)
                      ELSE ScanError
             ELSE IF c \in Digits
             THEN LET j == DigitsEnd(p, i)
                  IN  Scanned(Tok("backref", DecNum(p, i, j - 1)), j, st)
             ELSE Scanned(Tok("ord_char", c), i + 1, st)

\* One token read outside brackets and braces, from p[i].  Every ? and ^ of
\* the pattern has the backslash of line 132 before it, so no "(?" opens an
\* assertion or a group without capture and no "[^" a negated bracket.
ScanNormal(p, i) ==
    LET c == p[i]
    IN  IF c \notin SpecChars THEN Scanned(Tok("ord_char", c), i + 1, "normal")
        ELSE IF c = 92 THEN EatEscape(p, i + 1, "normal")
        ELSE IF c = 40 THEN Scanned(Tok("subexpr_begin", 0), i + 1, "normal")
        ELSE IF c = 41 THEN Scanned(Tok("subexpr_end", 0), i + 1, "normal")
        ELSE IF c = 91 THEN Scanned(Tok("bracket_begin", 0), i + 1, "bracket")
        ELSE IF c = 123 THEN Scanned(Tok("interval_begin", 0), i + 1, "brace")
        ELSE IF c \in {0, 93, 125} THEN Scanned(Tok("ord_char", c), i + 1, "normal")
        ELSE Scanned(Tok(CASE c = 94 -> "line_begin" [] c = 36 -> "line_end"
                           [] c = 46 -> "anychar" [] c = 42 -> "closure0"
                           [] c = 43 -> "closure1" [] c = 63 -> "opt"
                           [] c = 124 -> "or", 0),
                     i + 1, "normal")

\* One token read inside a bracket expression, from p[i].  After "[:", "[."
\* or "[=" the scanner wants a name that ends in ":]", ".]" or "=]"; every ]
\* of the pattern has a backslash before it, so there is none and it throws.
ScanInBracket(p, i) ==
    LET c == p[i]
    IN  IF c = 45 THEN Scanned(Tok("bracket_dash", 0), i + 1, "bracket")
        ELSE IF c = 91
        THEN IF i = Len(p) \/ p[i + 1] \in {46, 58, 61} THEN ScanError
             ELSE Scanned(Tok("ord_char", c), i + 1, "bracket")
        ELSE IF c = 93 THEN Scanned(Tok("bracket_end", 0), i + 1, "normal")
        ELSE IF c = 92 THEN EatEscape(p, i + 1, "bracket")
        ELSE Scanned(Tok("ord_char", c), i + 1, "bracket")

\* One token read inside the braces of a repetition count, from p[i]: a
\* number or a comma; at anything else the scanner throws, and the } that
\* would end the count has a backslash before it.
ScanInBrace(p, i) ==
    LET c == p[i]
    IN  IF c \in Digits
        THEN LET j == DigitsEnd(p, i)
             IN  Scanned(Tok("dup_count", DecNum(p, i, j - 1)), j, "brace")
        ELSE IF c = 44 THEN Scanned(Tok("comma", 0), i + 1, "brace")
        ELSE ScanError

\* The tokens of the pattern from p[i] on, read in scanner state st:
\* [err, toks], err when the scanner throws.  ScanAfter goes on after the
\* token r.
RECURSIVE ScanFrom(_, _, _), ScanAfter(_, _)
ScanFrom(p, i, st) ==
    IF i > Len(p) THEN [err |-> FALSE, toks |-> <<>>]
    ELSE ScanAfter(p, CASE st = "normal" -> ScanNormal(p, i)
                        [] st = "bracket" -> ScanInBracket(p, i)
                        [] st = "brace" -> ScanInBrace(p, i))

Prepend(tok, rest) ==
    IF rest.err THEN rest ELSE [err |-> FALSE, toks |-> <<tok>> \o rest.toks]

ScanAfter(p, r) ==
    IF r.err THEN [err |-> TRUE, toks |-> <<>>]
    ELSE Prepend(r.tok, ScanFrom(p, r.i, r.st))

\* The token at index i; past the last one, the end of the pattern.
TokAt(toks, i) == IF i <= Len(toks) THEN toks[i] ELSE Tok("eof", 0)

NoNode == [k |-> "none"]
Parsed(node, i, cnt) == [err |-> FALSE, found |-> TRUE, node |-> node, i |-> i, cnt |-> cnt]
NotFound(i, cnt) == [err |-> FALSE, found |-> FALSE, node |-> NoNode, i |-> i, cnt |-> cnt]
ParseError == [err |-> TRUE, found |-> FALSE, node |-> NoNode, i |-> 0, cnt |-> 0]

\* A bracket matcher: the characters, the ranges <<l, r>> and the classes
\* (d, s, w) it accepts, the classes it accepts the complement of, and
\* whether the whole is negated.
BracketMatcher(neg) ==
    [k |-> "bracket", neg |-> neg, chars |-> {}, ranges |-> {}, cls |-> {}, ncls |-> {}]
AddChar(m, c) == [m EXCEPT !.chars = @ \cup {c}]
AddRange(m, l, r) == [m EXCEPT !.ranges = @ \cup {<<l, r>>}]
AddClass(m, c) ==
    IF c \in 65 .. 90 THEN [m EXCEPT !.ncls = @ \cup {c + 32}]
    ELSE [m EXCEPT !.cls = @ \cup {c}]

\* The terms of a bracket expression from toks[i] up to its "]", added to
\* the matcher m; last is the character read last and not yet added, or says
\* that a class was read last.
RECURSIVE ExpressionTerms(_, _, _, _, _)
ExpressionTerms(toks, i, cnt, last, m) ==
    LET t == TokAt(toks, i)
        u == TokAt(toks, i + 1)
        pushed == IF last.t = "char" THEN AddChar(m, last.c) ELSE m
    IN  IF t.t = "bracket_end" THEN Parsed(pushed, i + 1, cnt)
        ELSE IF t.t = "ord_char"
        THEN ExpressionTerms(toks, i + 1, cnt, [t |-> "char", c |-> t.c], pushed)
        ELSE IF t.t = "bracket_dash"
        THEN IF u.t = "bracket_end" THEN Parsed(AddChar(pushed, 45), i + 2, cnt)
             ELSE IF last.t = "class" THEN ParseError
             ELSE IF last.t = "char"
             THEN IF u.t \in {"ord_char", "bracket_dash"}
                  THEN LET r == IF u.t = "ord_char" THEN u.c ELSE 45
                       IN  IF last.c > r THEN ParseError
                           ELSE ExpressionTerms(toks, i + 2, cnt, [t |-> "none", c |-> 0],
                                                AddRange(m, last.c, r))
                  ELSE ParseError
             ELSE ExpressionTerms(toks, i + 1, cnt, [t |-> "char", c |-> 45], pushed)
        ELSE IF t.t = "quoted_class"
        THEN ExpressionTerms(toks, i + 1, cnt, [t |-> "class", c |-> 0], AddClass(pushed, t.c))
        ELSE ParseError

\* The bracket expression whose "[" is toks[i - 1].
BracketExpression(toks, i, cnt) ==
    LET t == TokAt(toks, i)
    IN  IF t.t = "ord_char"
        THEN ExpressionTerms(toks, i + 1, cnt, [t |-> "char", c |-> t.c], BracketMatcher(FALSE))
        ELSE IF t.t = "bracket_dash"
        THEN ExpressionTerms(toks, i + 1, cnt, [t |-> "char", c |-> 45], BracketMatcher(FALSE))
        ELSE ExpressionTerms(toks, i, cnt, [t |-> "none", c |-> 0], BracketMatcher(FALSE))

\* The quantifiers * + ? after the atom a, each lazy when a ? follows it.
RECURSIVE Quantifiers(_, _)
Quantifiers(toks, a) ==
    LET t == TokAt(toks, a.i)
        lazy == TokAt(toks, a.i + 1).t = "opt"
    IN  IF t.t \in {"closure0", "closure1", "opt"}
        THEN Quantifiers(toks,
                 Parsed([k |-> "repeat", body |-> a.node,
                         min |-> IF t.t = "closure1" THEN 1 ELSE 0,
                         once |-> t.t = "opt", lazy |-> lazy],
                        IF lazy THEN a.i + 2 ELSE a.i + 1, a.cnt))
        ELSE a

\* The grammar of the expression.  cnt is the number of groups opened so far
\* (the whole match is group 0) and open the groups not closed yet: a
\* back-reference to a group not opened so far or not closed yet throws.
RECURSIVE Disjunction(_, _, _, _), MoreAlternatives(_, _, _, _),
          Alternative(_, _, _, _), MoreTerms(_, _, _, _), Term(_, _, _, _),
          Atom(_, _, _, _)

\* The group numbered id, whose body d was read up to its ")".
Subexpr(toks, id, d) ==
    IF d.err \/ TokAt(toks, d.i).t # "subexpr_end" THEN ParseError
    ELSE Parsed([k |-> "subexpr", id |-> id, body |-> d.node], d.i + 1, d.cnt)

Atom(toks, i, cnt, open) ==
    LET t == TokAt(toks, i)
    IN  CASE t.t = "anychar" -> Parsed([k |-> "any"], i + 1, cnt)
          [] t.t = "ord_char" -> Parsed([k |-> "char", c |-> t.c], i + 1, cnt)
          [] t.t = "backref" ->
                IF t.c >= cnt \/ t.c \in open THEN ParseError
                ELSE Parsed([k |-> "backref", n |-> t.c], i + 1, cnt)
          [] t.t = "quoted_class" ->
                Parsed(AddClass(BracketMatcher(t.c \in 65 .. 90),
                                IF t.c \in 65 .. 90 THEN t.c + 32 ELSE t.c),
                       i + 1, cnt)
          [] t.t = "subexpr_begin" ->
                Subexpr(toks, cnt, Disjunction(toks, i + 1, cnt + 1, open \cup {cnt}))
          [] t.t = "bracket_begin" -> BracketExpression(toks, i + 1, cnt)
          [] OTHER -> NotFound(i, cnt)

\* The atom a, when there is one, with the quantifiers after it.
Quantified(toks, a) == IF a.err \/ ~a.found THEN a ELSE Quantifiers(toks, a)

Term(toks, i, cnt, open) ==
    LET t == TokAt(toks, i)
    IN  CASE t.t = "line_begin" -> Parsed([k |-> "line_begin"], i + 1, cnt)
          [] t.t = "line_end" -> Parsed([k |-> "line_end"], i + 1, cnt)
          [] t.t = "word_bound" -> Parsed([k |-> "word_bound", neg |-> t.c = 1], i + 1, cnt)
          [] OTHER -> Quantified(toks, Atom(toks, i, cnt, open))

\* An alternative: the terms `terms`, then t when there is one and the
\* terms after it.
MoreTerms(toks, open, terms, t) ==
    IF t.err THEN ParseError
    ELSE IF ~t.found THEN Parsed([k |-> "alternative", terms |-> terms], t.i, t.cnt)
    ELSE MoreTerms(toks, open, Append(terms, t.node), Term(toks, t.i, t.cnt, open))

Alternative(toks, i, cnt, open) == MoreTerms(toks, open, <<>>, Term(toks, i, cnt, open))

\* A disjunction: the alternatives `alts`, then a and those after each "|"
\* that follows.
MoreAlternatives(toks, open, alts, a) ==
    IF a.err THEN ParseError
    ELSE IF TokAt(toks, a.i).t = "or"
    THEN MoreAlternatives(toks, open, Append(alts, a.node),
                          Alternative(toks, a.i + 1, a.cnt, open))
    ELSE Parsed([k |-> "disjunction", alts |-> Append(alts, a.node)], a.i, a.cnt)

Disjunction(toks, i, cnt, open) ==
    MoreAlternatives(toks, open, <<>>, Alternative(toks, i, cnt, open))

\* The expression of the tokens toks when all of them are read by d.
Expression(toks, d) ==
    IF d.err \/ d.i <= Len(toks) THEN [err |-> TRUE, node |-> NoNode]
    ELSE [err |-> FALSE, node |-> d.node]

Compiled(s) ==
    IF s.err THEN [err |-> TRUE, node |-> NoNode]
    ELSE Expression(s.toks, Disjunction(s.toks, 1, 1, {0}))

\* std::regex special_pattern(pattern), line 135: [err, node]; err when the
\* constructor throws std::regex_error.
special_pattern(pattern) == Compiled(ScanFrom(pattern, 1, "normal"))

\* The classes \d, \s and \w (of the "C" locale, which the program never
\* changes): a byte of 128 or more is in none.
InClass(c, ch) ==
    CASE c = 100 -> ch \in Digits
      [] c = 115 -> ch \in (9 .. 13) \cup {32}
      [] c = 119 -> ch \in Alnum \cup {95}

\* Whether the bracket matcher m accepts ch; a range compares chars, which
\* are signed.
BracketApply(m, ch) ==
    (\/ ch \in m.chars
     \/ \E r \in m.ranges : r[1] <= ch /\ ch <= r[2]
     \/ \E c \in m.cls : InClass(c, ch)
     \/ \E c \in m.ncls : ~InClass(c, ch)) # m.neg

\* The executor of the expression, which goes depth first: the ways node n
\* matches from the state s = [pos, caps], in the order the executor tries
\* them, each the state after the match.  pos is an offset into cx.input,
\* caps the groups closed so far as <<first, second>>; cx.begin is the offset
\* the attempt started at and cx.prev_avail the flag match_prev_avail.
RECURSIVE Ways(_, _, _), WaysOnward(_, _, _, _), WaysOfTerms(_, _, _, _),
          WaysOfAlts(_, _, _, _), WaysOfRepeat(_, _, _, _),
          WaysOfRepeatOnward(_, _, _, _, _)

IsWord(cx, pos) == pos >= 1 /\ pos <= Len(cx.input) /\ InClass(119, cx.input[pos])

WordBoundary(cx, pos) ==
    LET left == (pos # cx.begin \/ cx.prev_avail) /\ IsWord(cx, pos)
        right == IsWord(cx, pos + 1)
    IN  left # right

Ways(cx, n, s) ==
    LET more == s.pos < Len(cx.input)
        ch == cx.input[s.pos + 1]
        step == << [s EXCEPT !.pos = @ + 1] >>
    IN  CASE n.k = "char" -> IF more /\ ch = n.c THEN step ELSE <<>>
          [] n.k = "any" -> IF more /\ ch \notin {10, 13} THEN step ELSE <<>>
          [] n.k = "bracket" -> IF more /\ BracketApply(n, ch) THEN step ELSE <<>>
          [] n.k = "backref" ->
                IF n.n \notin DOMAIN s.caps THEN <<>>
                ELSE LET first == s.caps[n.n][1]
                         len == s.caps[n.n][2] - first
                     IN  IF /\ s.pos + len <= Len(cx.input)
                            /\ \A j \in 1 .. len : cx.input[s.pos + j] = cx.input[first + j]
                         THEN << [s EXCEPT !.pos = @ + len] >>
                         ELSE <<>>
          [] n.k = "line_begin" ->
                IF s.pos = cx.begin /\ ~cx.prev_avail THEN <<s>> ELSE <<>>
          [] n.k = "line_end" -> IF s.pos = Len(cx.input) THEN <<s>> ELSE <<>>
          [] n.k = "word_bound" ->
                IF WordBoundary(cx, s.pos) # n.neg THEN <<s>> ELSE <<>>
          [] n.k = "subexpr" -> WaysOnward(cx, n, s, Ways(cx, n.body, s))
          [] n.k = "alternative" -> WaysOfTerms(cx, n.terms, 1, <<s>>)
          [] n.k = "disjunction" -> WaysOfAlts(cx, n.alts, 1, s)
          [] n.k = "repeat" -> WaysOfRepeat(cx, n, s, 0)

\* The ways of the body of the group n, each with the group closed.
WaysOnward(cx, n, s, ws) ==
    [j \in DOMAIN ws |-> [ws[j] EXCEPT !.caps = Put(@, n.id, <<s.pos, ws[j].pos>>)]]

\* The ways of the terms from the k-th on, from each state of ss in turn.
WaysOfTerms(cx, terms, k, ss) ==
    IF ss = <<>> THEN <<>>
    ELSE IF k > Len(terms) THEN ss
    ELSE WaysOfTerms(cx, terms, k + 1, Ways(cx, terms[k], Head(ss)))
         \o WaysOfTerms(cx, terms, k, Tail(ss))

\* The ways of the alternatives from the k-th on: the left one first.
WaysOfAlts(cx, alts, k, s) ==
    IF k > Len(alts) THEN <<>>
    ELSE Ways(cx, alts[k], s) \o WaysOfAlts(cx, alts, k + 1, s)

\* The ways of the repetition n after `count` rounds of its body: greedy,
\* once more before leaving it; lazy, the other way round.  A round that
\* consumes nothing is not repeated.
WaysOfRepeat(cx, n, s, count) ==
    LET again == IF n.once /\ count >= 1 THEN <<>>
                 ELSE WaysOfRepeatOnward(cx, n, s, count, Ways(cx, n.body, s))
        leave == IF count >= n.min THEN <<s>> ELSE <<>>
    IN  IF n.lazy THEN leave \o again ELSE again \o leave

WaysOfRepeatOnward(cx, n, s, count, ws) ==
    IF ws = <<>> THEN <<>>
    ELSE (IF Head(ws).pos = s.pos /\ count >= n.min THEN <<>>
          ELSE WaysOfRepeat(cx, n, Head(ws), count + 1))
         \o WaysOfRepeatOnward(cx, n, s, count, Tail(ws))

NoMatch == [matched |-> FALSE, first |-> 0, second |-> 0]

\* One attempt of regex_search at offset begin: the first way the executor
\* accepts, which with match_not_null is not an empty one.
RECURSIVE FirstAccepted(_, _, _, _)
FirstAccepted(ws, j, begin, not_null) ==
    IF j > Len(ws) THEN NoMatch
    ELSE IF ws[j].pos = begin /\ not_null THEN FirstAccepted(ws, j + 1, begin, not_null)
    ELSE [matched |-> TRUE, first |-> begin, second |-> ws[j].pos]

\* regex_search(start, end, ...) of the iterator: the attempts at start and,
\* without match_continuous, at each later offset up to the end, those with
\* match_prev_avail.
RECURSIVE regex_search(_, _, _, _)
regex_search(re, input, begin, flags) ==
    LET cx == [input |-> input, begin |-> begin, prev_avail |-> flags.prev_avail]
        m == FirstAccepted(Ways(cx, re, [pos |-> begin, caps |-> EmptyMap]), 1,
                           begin, flags.not_null)
    IN  IF m.matched \/ flags.continuous \/ begin = Len(input) THEN m
        ELSE regex_search(re, input, begin + 1, [flags EXCEPT !.prev_avail = TRUE])

Flags(not_null, continuous, prev_avail) ==
    [not_null |-> not_null, continuous |-> continuous, prev_avail |-> prev_avail]

Slice(s, from, to) == [k \in 1..(to - from) |-> s[from + k]]

\* The strings sregex_token_iterator(..., {-1, 0}) of line 137 yields after
\* the match m, each [str, pos, special]: the text between the end of the
\* match before (prefix_first) and m, also when it is empty, then m; and so
\* on with the match operator++ of the regex_iterator finds next.  After an
\* empty match it stops at the end of the input, else looks for a match that
\* is not empty at the same offset, else goes on from the next offset.  After
\* the last match comes the rest of the input when it is not empty.  `later`
\* is FALSE up to the first call of operator++, which sets match_prev_avail
\* after that search at the same offset.
RECURSIVE SplitFrom(_, _, _, _, _)
SplitFrom(re, input, prefix_first, m, later) ==
    LET here == << [str |-> Slice(input, prefix_first, m.first),
                    pos |-> prefix_first, special |-> FALSE],
                   [str |-> Slice(input, m.first, m.second),
                    pos |-> m.first, special |-> TRUE] >>
        empty == m.first = m.second
        same == IF empty /\ m.second < Len(input)
                THEN regex_search(re, input, m.second, Flags(TRUE, TRUE, later))
                ELSE NoMatch
        next == IF same.matched THEN same
                ELSE regex_search(re, input, IF empty THEN m.second + 1 ELSE m.second,
                                  Flags(FALSE, FALSE, TRUE))
    IN  IF empty /\ m.second = Len(input) THEN here
        ELSE IF next.matched THEN here \o SplitFrom(re, input, m.second, next, TRUE)
        ELSE here \o (IF m.second < Len(input)
                      THEN << [str |-> Slice(input, m.second, Len(input)),
                               pos |-> m.second, special |-> FALSE] >>
                      ELSE <<>>)

\* All the strings the iterator of line 137 yields: the whole input when
\* the expression matches nowhere.
Splits(re, input) ==
    LET m == regex_search(re, input, 0, Flags(FALSE, FALSE, FALSE))
    IN  IF m.matched THEN SplitFrom(re, input, 0, m, FALSE)
        ELSE << [str |-> input, pos |-> 0, special |-> FALSE] >>

\* Line 137 for the compiled pattern re and the text `input`: [err, splits],
\* err when the constructor of line 135 threw.
IteratorOver(re, input) ==
    IF re.err THEN [err |-> TRUE, splits |-> <<>>]
    ELSE [err |-> FALSE, splits |-> Splits(re.node, input)]

\* Lines 129-137 for the tokens visited in `order` and the text `input`.
TokenIterator(order, input) == IteratorOver(special_pattern(PatternOf(order)), input)

\* TokenIterator for the orders of the tokens of SpecialTokens and the texts
\* of Texts, worked out once: a table of its values (@@ makes the function
\* an explicit table).
TokenIteratorTable ==
    [x \in (UNION {IterationOrders(S) : S \in SUBSET SpecialTokens}) \X Texts |->
        TokenIterator(x[1], x[2])] @@ <<>>

\* table[key] where the table has the key, and other elsewhere.
Lookup(table, key, other) == IF key \in DOMAIN table THEN table[key] ELSE other

\* The same as TokenIterator(order, input), looked up where the table has it.
iter(order, input) ==
    Lookup(TokenIteratorTable, <<order, input>>, TokenIterator(order, input))

\* The loop of lines 140-148 over the splits from the k-th on.
RECURSIVE encode_splits(_, _, _, _)
encode_splits(prs, s2i, splits, k) ==
    IF k > Len(splits) THEN [status |-> "ok", ids |-> <<>>]
    ELSE LET split == splits[k].str
             here == IF split \in DOMAIN s2i
                     THEN [status |-> "ok", ids |-> <<s2i[split]>>]
                     ELSE encode_non_special(prs, split)
         IN  IF here.status = "fault" THEN here
             ELSE LET rest == encode_splits(prs, s2i, splits, k + 1)
                  IN  IF rest.status = "fault" THEN rest
                      ELSE [status |-> "ok", ids |-> here.ids \o rest.ids]

\* The matches of the pattern among the splits, each [pos, str].
Matches(splits) == SelectSeq(splits, LAMBDA x : x.special)

\* What encode returns when the iterator gave `it` and the loop of lines
\* 140-148 (or line 150) gave r: [status, ids, matches], the status
\* "regex_error" when the constructor of line 135 threw.
encode_result(it, r) ==
    IF it.err THEN [status |-> "regex_error", ids |-> <<>>, matches |-> <<>>]
    ELSE [status |-> r.status, ids |-> r.ids,
          matches |-> IF r.status = "ok" THEN Matches(it.splits) ELSE <<>>]

\* Lines 129-148, the branch taken when special tokens are registered.
encode_special(prs, s2i, it) ==
    encode_result(it, IF it.err THEN [status |-> "regex_error", ids |-> <<>>]
                      ELSE encode_splits(prs, s2i, it.splits, 1))

\* encode(input) when the map special_to_id is iterated in `order`.
encode(prs, s2i, order, input) ==
    IF DOMAIN s2i # {}
    THEN encode_special(prs, s2i, iter(order, input))
    ELSE encode_result([err |-> FALSE, splits |-> <<>>], encode_non_special(prs, input))

----------------------------------------------------------------------------
(* decode. *)

\* The loop of lines 159-165 over the IDs from the k-th on: [text, i2t], the
\* text appended and id_to_token afterwards.  id_to_token[id] of an absent id
\* inserts the empty string under it and yields it.
RECURSIVE decode_from(_, _, _, _)
decode_from(i2t, i2s, ids, k) ==
    IF k > Len(ids) THEN [text |-> <<>>, i2t |-> i2t]
    ELSE LET id == ids[k]
         IN  IF id \in DOMAIN i2s
             THEN LET rest == decode_from(i2t, i2s, ids, k + 1)
                  IN  [text |-> i2s[id] \o rest.text, i2t |-> rest.i2t]
             ELSE LET now == IF id \in DOMAIN i2t THEN i2t ELSE Put(i2t, id, <<>>)
                      rest == decode_from(now, i2s, ids, k + 1)
                  IN  [text |-> now[id] \o rest.text, i2t |-> rest.i2t]

decode(i2t, i2s, ids) == decode_from(i2t, i2s, ids, 1)

----------------------------------------------------------------------------
(* The tokenizer's state and its methods. *)

vocab_size == next_id

\* What `ret` holds: the method called (op), how far it got (status:
\* "running", "ok", "fault" or "regex_error"), its string argument or, for a
\* decode of what encode just returned, the text that was encoded (text), the IDs encode
\* returned or decode was given (ids), the string decode returned (out),
\* vocab_size() when train was called (start), whether decode was given an ID
\* that was in neither id_to_token nor id_to_special (unknown), where the
\* IDs given to decode came from (src: "encode" or "caller"), the pattern
\* matches encode found (matches), and how a faulting call ended (fault).
Ret(op, status) ==
    [op |-> op, status |-> status, text |-> <<>>, ids |-> <<>>, out |-> <<>>,
     start |-> 0, unknown |-> FALSE, src |-> "none", matches |-> <<>>,
     fault |-> "none"]

\* reset(), lines 74-83, on the tables.
ResetTables ==
    /\ pairs' = EmptyMap
    /\ added_tokens' = Added(ByteTokens)
    /\ next_id' = 256
    /\ special_to_id' = EmptyMap
    /\ id_to_special' = EmptyMap

\* The constructor, lines 67-72, for the sizes it accepts.
Init ==
    /\ max_vocab_size \in MaxVocabSizes
    /\ pairs = EmptyMap
    /\ added_tokens = Added(ByteTokens)
    /\ next_id = 256
    /\ special_to_id = EmptyMap
    /\ id_to_special = EmptyMap
    /\ pc = "idle"
    /\ indices = <<>>
    /\ stop_early = FALSE
    /\ ret = Ret("construct", "ok")

Reset ==
    /\ pc = "idle"
    /\ ResetTables
    /\ ret' = Ret("reset", "ok")
    /\ UNCHANGED <<max_vocab_size, pc, indices, stop_early>>

RegisterSpecial(token) ==
    /\ pc = "idle"
    /\ IF token \notin DOMAIN special_to_id
       THEN /\ special_to_id' = Put(special_to_id, token, next_id)
            /\ id_to_special' = Put(id_to_special, next_id, token)
            /\ next_id' = next_id + 1
       ELSE UNCHANGED <<special_to_id, id_to_special, next_id>>
    /\ ret' = [Ret("register", "ok") EXCEPT !.text = token]
    /\ UNCHANGED <<max_vocab_size, pairs, added_tokens, pc, indices, stop_early>>

\* train, line 95: the call and its local vector.
TrainCall(input, early) ==
    /\ pc = "idle"
    /\ pc' = "train"
    /\ indices' = string_to_byte(input)
    /\ stop_early' = early
    /\ ret' = [Ret("train", "running") EXCEPT !.text = input, !.start = vocab_size]
    /\ UNCHANGED <<max_vocab_size, pairs, added_tokens, next_id, special_to_id,
                   id_to_special>>

\* The loop condition with its comparison off by one.
TrainLoopCondInclusive == vocab_size <= max_vocab_size

\* The condition of the while loop, line 97.
TrainLoopCond == vocab_size < max_vocab_size

\* The conditions of the two breaks, lines 100-106, on a result of
\* most_frequent_pair.
TrainBreaks(r) ==
    \/ r[1][1] = -1 /\ r[1][2] = -1
    \/ stop_early /\ r[2] = 1

\* An iteration in which most_frequent_pair reads outside `indices`.
TrainFault ==
    /\ pc = "train"
    /\ TrainLoopCond
    /\ LoopOutOfBounds(Len(indices))
    /\ pc' = "crashed"
    /\ \E f \in Faults : ret' = [ret EXCEPT !.status = "fault", !.fault = f]
    /\ UNCHANGED <<max_vocab_size, pairs, added_tokens, next_id, special_to_id,
                   id_to_special, indices, stop_early>>

\* An iteration that merges, lines 108-118.
TrainMerge ==
    /\ pc = "train"
    /\ TrainLoopCond
    /\ ~LoopOutOfBounds(Len(indices))
    /\ \E r \in most_frequent_pair(indices) :
          /\ ~TrainBreaks(r)
          /\ indices' = merge_pair(indices, r[1], next_id)
          /\ pairs' = Put(pairs, r[1], next_id)
          /\ added_tokens' = Added(Put(id_to_token, next_id,
                                       id_to_token[r[1][1]] \o id_to_token[r[1][2]]))
          /\ next_id' = next_id + 1
    /\ UNCHANGED <<max_vocab_size, special_to_id, id_to_special, pc, stop_early, ret>>

\* The loop ends, by its condition or by a break, and train returns.
TrainReturn ==
    /\ pc = "train"
    /\ \/ ~TrainLoopCond
       \/ /\ ~LoopOutOfBounds(Len(indices))
          /\ \E r \in most_frequent_pair(indices) : TrainBreaks(r)
    /\ pc' = "idle"
    /\ indices' = <<>>
    /\ stop_early' = FALSE
    /\ ret' = [ret EXCEPT !.status = "ok"]
    /\ UNCHANGED <<max_vocab_size, pairs, added_tokens, next_id, special_to_id,
                   id_to_special>>

\* encode(text), lines 125-154.
EncodeReturn(text, r) ==
    IF r.status = "ok"
    THEN /\ pc' = "idle"
         /\ ret' = [Ret("encode", "ok") EXCEPT !.text = text, !.ids = r.ids,
                                               !.matches = r.matches]
    ELSE IF r.status = "regex_error"
    THEN /\ pc' = "idle"
         /\ ret' = [Ret("encode", "regex_error") EXCEPT !.text = text]
    ELSE /\ pc' = "crashed"
         /\ \E f \in Faults :
               ret' = [Ret("encode", "fault") EXCEPT !.text = text, !.fault = f]

Encode(text) ==
    /\ pc = "idle"
    /\ \E order \in IterationOrders(DOMAIN special_to_id) :
          EncodeReturn(text, encode(pairs, special_to_id, order, text))
    /\ UNCHANGED <<max_vocab_size, pairs, added_tokens, next_id, special_to_id,
                   id_to_special, indices, stop_early>>

\* decode(ids), lines 156-168; src says whether ids is what encode just
\* returned for ret.text.
Decode(ids, src) ==
    /\ pc = "idle"
    /\ LET r == decode(id_to_token, id_to_special, ids)
       IN  /\ added_tokens' = Added(r.i2t)
           /\ ret' = [Ret("decode", "ok") EXCEPT
                        !.text = IF src = "encode" THEN ret.text ELSE <<>>,
                        !.ids = ids, !.out = r.text, !.src = src,
                        !.unknown = \E k \in DOMAIN ids :
                                       /\ ids[k] \notin DOMAIN id_to_token
                                       /\ ids[k] \notin DOMAIN id_to_special]
    /\ UNCHANGED <<max_vocab_size, pairs, next_id, special_to_id, id_to_special,
                   pc, indices, stop_early>>

Next ==
    \/ Reset
    \/ \E token \in SpecialTokens : RegisterSpecial(token)
    \/ \E input \in Texts, early \in BOOLEAN : TrainCall(input, early)
    \/ TrainFault
    \/ TrainMerge
    \/ TrainReturn
    \/ \E text \in Texts : Encode(text)
    \/ \E ids \in IdSeqs : Decode(ids, "caller")
    \/ ret.op = "encode" /\ ret.status = "ok" /\ Decode(ret.ids, "encode")

Spec == Init /\ [][Next]_vars

\* The sequences of construct, register_special_token and train calls alone.
NextTrain ==
    \/ \E token \in SpecialTokens : RegisterSpecial(token)
    \/ \E input \in Texts, early \in BOOLEAN : TrainCall(input, early)
    \/ TrainFault
    \/ TrainMerge
    \/ TrainReturn

TrainSpec == Init /\ [][NextTrain]_vars

----------------------------------------------------------------------------
(* Properties. *)

\* The literal t occurs in text at offset pos.
Occurs(t, text, pos) ==
    /\ pos + Len(t) <= Len(text)
    /\ \A k \in 1..Len(t) : text[pos + k] = t[k]

\* text has a substring equal to a registered special token.
HasSpecial(text) ==
    \E t \in DOMAIN special_to_id : \E pos \in 0..Len(text) : Occurs(t, text, pos)

Max(a, b) == IF a >= b THEN a ELSE b

\* <<a1, a2>> is lexicographically at most <<b1, b2>>.
LexLeq(p, q) == p[1] < q[1] \/ (p[1] = q[1] /\ p[2] <= q[2])

\* C1: for a text with no substring equal to a registered special token, the
\* empty text included, encode returns, and decode of what it returned is the
\* text, in every state of the vocabulary.
C1_PlainRoundTrip ==
    /\ (ret.op = "encode" /\ ~HasSpecial(ret.text)) => ret.status = "ok"
    /\ (ret.op = "decode" /\ ret.src = "encode" /\ ~HasSpecial(ret.text))
          => ret.out = ret.text

\* C2: for a text with registered special-token literals in it, at its start,
\* at its end or next to each other, encode returns, the special IDs it
\* returns are those of the literals it matched, in order, and decode of what
\* it returned is the text.
C2_SpecialRoundTrip ==
    /\ (ret.op = "encode" /\ HasSpecial(ret.text)) =>
          /\ ret.status = "ok"
          /\ SelectSeq(ret.ids, LAMBDA id : id \in DOMAIN id_to_special)
                = [k \in DOMAIN ret.matches |-> special_to_id[ret.matches[k].str]]
    /\ (ret.op = "decode" /\ ret.src = "encode" /\ HasSpecial(ret.text))
          => ret.out = ret.text

\* C3: decode of a sequence holding an ID that is in neither table ends in a
\* reported error and returns no text.
C3_UnknownIdReported ==
    (ret.op = "decode" /\ ret.unknown) => (ret.status = "error" /\ ret.out = <<>>)

\* C4 as stated: when train has returned, vocab_size() is not smaller than it
\* was at the call and is at most max_vocab_size.
C4_TrainWithinMax ==
    (ret.op = "train" /\ ret.status = "ok") =>
        (vocab_size >= ret.start /\ vocab_size <= max_vocab_size)

\* C4 as amended: when train has returned, vocab_size() is not smaller than
\* it was at the call and is at most the larger of max_vocab_size and its
\* value at the call.
C4_TrainGrowthBounded ==
    (ret.op = "train" /\ ret.status = "ok") =>
        (vocab_size >= ret.start /\ vocab_size <= Max(max_vocab_size, ret.start))

\* Witness of C4: a train call, after a special token was registered, that merged and
\* returned with the vocabulary at max_vocab_size.
C4_Witness ==
    /\ ret.op = "train" /\ ret.status = "ok"
    /\ DOMAIN special_to_id # {}
    /\ vocab_size > ret.start
    /\ vocab_size = max_vocab_size

\* C5: in every step that is not a reset, every rule of the merge table is
\* still in it and maps its pair to the same ID.
C5_MergeTableAppendOnly ==
    [][ret'.op # "reset" =>
          \A p \in DOMAIN pairs : p \in DOMAIN pairs' /\ pairs'[p] = pairs[p]]_vars

\* C6: a train call on a sequence of length at most 1 reads nothing outside
\* the sequence and changes neither the merge table nor vocab_size().
C6_ShortTrainNoMerge ==
    [][(pc = "train" /\ Len(ret.text) <= 1) =>
          (pc' # "crashed" /\ pairs' = pairs /\ next_id' = next_id)]_vars

\* C7: every special token encode matched is at the earliest offset, after
\* the match before it, where a registered special token occurs, and no
\* longer registered special token occurs at that offset.
C7_EarliestLongestMatch ==
    (ret.op = "encode" /\ ret.status = "ok") =>
        \A k \in DOMAIN ret.matches :
            LET m == ret.matches[k]
                from == IF k = 1 THEN 0
                        ELSE ret.matches[k - 1].pos + Len(ret.matches[k - 1].str)
            IN  /\ \A q \in from..(m.pos - 1) : \A t \in DOMAIN special_to_id :
                       ~Occurs(t, ret.text, q)
                /\ \A t \in DOMAIN special_to_id :
                       Occurs(t, ret.text, m.pos) => Len(t) <= Len(m.str)

\* C8: the pair a training iteration merges has the highest count among the
\* adjacent pairs of the sequence and is the lexicographically smallest of
\* the pairs with that count.
C8_SmallestMostFrequentPair ==
    [][(pc = "train" /\ pc' = "train" /\ next_id' = next_id + 1) =>
          \E p \in DOMAIN pairs' :
              /\ pairs'[p] = next_id
              /\ p \in PairsIn(indices)
              /\ \A q \in PairsIn(indices) :
                    /\ PairCount(indices, q) <= PairCount(indices, p)
                    /\ PairCount(indices, q) = PairCount(indices, p) => LexLeq(p, q)]_vars

\* C9: no ID is in both id_to_token and id_to_special, and every ID in either
\* is smaller than vocab_size().
C9_IdsMintedOnce ==
    /\ (DOMAIN id_to_token) \cap (DOMAIN id_to_special) = {}
    /\ \A id \in (DOMAIN id_to_token) \cup (DOMAIN id_to_special) : id < vocab_size

\* C10: every iteration of train's loop either ends the call with the
\* vocabulary as it is or applies one merge that raises vocab_size() by 1,
\* to at most max_vocab_size; so the call returns after at most
\* max_vocab_size minus the starting vocab_size() merges.
C10_TrainIterationStopsOrMerges ==
    [][pc = "train" =>
          \/ pc' = "idle" /\ ret'.status = "ok" /\ next_id' = next_id
          \/ /\ pc' = "train"
             /\ next_id' = next_id + 1
             /\ next_id' - ret.start <= max_vocab_size - ret.start]_vars

====
